---------------------------- MODULE Spec2Model ----------------------------
(***************************************************************************)
(* Model of launch-dogly (src/src/main.rs): an AWS Lambda handler that     *)
(* receives a LaunchDarkly webhook, checks its X-LD-Signature header       *)
(* against HMAC-SHA256(LD_SECRET, body), decodes the body into a Payload   *)
(* and, for payloads of kind "flag", posts a Datadog event.                *)
(*                                                                         *)
(* Conventions.  Rust Strings that the program only formats (payload       *)
(* fields, the api key, messages) are TLA+ strings.  Byte strings the      *)
(* program inspects byte by byte (the secret, the raw body, a digest) are  *)
(* sequences of numbers in 0..255, and a header value, which the program   *)
(* parses character by character, is a sequence of one-character strings.  *)
(* Option and Result values are records with a tag field.                  *)
(***************************************************************************)
EXTENDS Integers, Sequences, FiniteSets, TLC

VARIABLES
    env,        \* the process environment: LD_SECRET and DD_API_KEY
    pc,         \* position of the running invocation of handler
    request,    \* the lambda_http::Request being handled
    cfg,        \* the Env struct bound at main.rs:94-97
    payload,    \* the Payload bound at main.rs:106
    response,   \* what handler returned
    calls,      \* the calls made by this invocation, in order
    sent,       \* the HTTP requests this invocation sent to Datadog
    logs,       \* the log records this invocation wrote
    test        \* the unit test being run (mod tests), with its values

vars == <<env, pc, request, cfg, payload, response, calls, sent, logs, test>>

---------------------------------------------------------------------------
(* Bounds of the model *)

\* Length in bytes of a digest of the modelled keyed hash
DigestLen == 2

\* Longest accesses list among the generated "flag" payloads
MaxAccesses == 2

---------------------------------------------------------------------------
(* Option / Result *)

None == [tag |-> "None"]
Some(v) == [tag |-> "Some", v |-> v]
Ok(v) == [tag |-> "Ok", v |-> v]
Err(e) == [tag |-> "Err", e |-> e]

---------------------------------------------------------------------------
(* hex::FromHex and hex::encode *)

HexLower == <<"0","1","2","3","4","5","6","7","8","9","a","b","c","d","e","f">>
HexUpper == <<"0","1","2","3","4","5","6","7","8","9","A","B","C","D","E","F">>

IsHexChar(c) == \E i \in 1..16 : HexLower[i] = c \/ HexUpper[i] = c

HexVal(c) == (CHOOSE i \in 1..16 : HexLower[i] = c \/ HexUpper[i] = c) - 1

\* hex::encode: two lower-case digits per byte, high nibble first
HexEncode(bytes) ==
    [i \in 1..(2 * Len(bytes)) |->
        LET b == bytes[(i + 1) \div 2]
        IN  IF i % 2 = 1 THEN HexLower[(b \div 16) + 1] ELSE HexLower[(b % 16) + 1]]

\* A from_hex that reads the low nibble first
from_hex_swapped(value) ==
    IF Len(value) % 2 # 0 THEN Err("OddLength")
    ELSE IF \E i \in 1..Len(value) : ~IsHexChar(value[i]) THEN Err("InvalidHexCharacter")
    ELSE Ok([i \in 1..(Len(value) \div 2) |->
                HexVal(value[2 * i]) * 16 + HexVal(value[2 * i - 1])])

\* Vec::<u8>::from_hex: odd length and non-hex characters are errors,
\* both letter cases are accepted
from_hex(value) ==
    IF Len(value) % 2 # 0 THEN Err("OddLength")
    ELSE IF \E i \in 1..Len(value) : ~IsHexChar(value[i]) THEN Err("InvalidHexCharacter")
    ELSE Ok([i \in 1..(Len(value) \div 2) |->
                HexVal(value[2 * i - 1]) * 16 + HexVal(value[2 * i])])

---------------------------------------------------------------------------
(* crypto::hmac::Hmac over Sha256, and MacResult's equality *)

RECURSIVE Mix(_, _)
Mix(h, bytes) ==
    IF bytes = <<>> THEN h
    ELSE Mix((h * 31 + Head(bytes) + 7) % 256, Tail(bytes))

\* Stand-in for HMAC-SHA256: a deterministic keyed digest of fixed length
\* DigestLen that depends on every byte of the key and of the message.
Hmac(key, msg) ==
    [i \in 1..DigestLen |->
        (Mix(i, key) * 17 + Mix(i + 3, msg) * 29 + Mix(Mix(i, key), msg)) % 256]

\* MacResult == MacResult is fixed_time_eq over the two codes: false on a
\* length mismatch, otherwise true iff no byte differs.
MacResultEq(a, b) ==
    /\ Len(a) = Len(b)
    /\ \A i \in 1..Len(a) : a[i] = b[i]

---------------------------------------------------------------------------
(* authenticated (main.rs:122-136) *)

\* authenticated with Option::iter().all(..) in place of any(..)
authenticated_all(req, secret) ==
    LET header == req.signature
        signature == IF header.tag = "None" THEN None
                     ELSE IF from_hex(header.v).tag = "Ok"
                          THEN Some(from_hex(header.v).v) ELSE None
    IN  signature.tag = "Some" => MacResultEq(Hmac(secret, req.body), signature.v)

authenticated(req, secret) ==
    LET header == req.signature
        signature == IF header.tag = "None" THEN None
                     ELSE IF from_hex(header.v).tag = "Ok"
                          THEN Some(from_hex(header.v).v) ELSE None
    IN  /\ signature.tag = "Some"
        /\ MacResultEq(Hmac(secret, req.body), signature.v)

---------------------------------------------------------------------------
(* JSON documents.  A document is a tagged value; an object's value is a   *)
(* function from its (wire) field names to documents.                      *)

JStr(s) == [t |-> "string", v |-> s]
JNum(n) == [t |-> "number", v |-> n]
JArr(a) == [t |-> "array", v |-> a]
JObj(o) == [t |-> "object", v |-> o]
NotJson == [t |-> "invalid", v |-> 0]

\* Actions named by the access records of the generated payloads
ActionNames == <<"updateOn", "updateName", "updateFallthrough">>

AccessDoc(i) == JObj([action |-> JStr(ActionNames[((i - 1) % Len(ActionNames)) + 1])])

PayloadDoc(accesses, kind, name, description, titleVerb, member) ==
    JObj([accesses |-> accesses, kind |-> JStr(kind), name |-> JStr(name),
          description |-> JStr(description), titleVerb |-> JStr(titleVerb),
          member |-> member])

MemberDoc(firstName, lastName) ==
    JObj([firstName |-> JStr(firstName), lastName |-> JStr(lastName)])

\* tests/data/payload.json, the document of the unit tests
TestPayloadDoc ==
    PayloadDoc(JArr(<<JObj([action |-> JStr("updateName")])>>), "environment", "Testing",
               "- Changed the name from ~~Test~~ to *Testing*", "changed the name of",
               MemberDoc("Reese", "Applebaum"))

\* A "flag" change with n access records
FlagDoc(n) ==
    PayloadDoc(JArr([i \in 1..n |-> AccessDoc(i)]), "flag", "dark-mode",
               "- Turned the flag on", "turned on", MemberDoc("Ada", "Byron"))

\* The raw bodies of the model (byte strings) ...
FlagBodies == {<<20, n>> : n \in 0..MaxAccesses}

Bodies ==
    FlagBodies \cup
    {<<1>>, <<1, 32>>, <<2>>, <<3>>, <<4>>, <<5>>, <<6>>, <<7>>, <<8>>, <<9>>,
     <<10>>, <<11>>, <<12>>, <<>>}

\* ... and the document serde_json reads from each
Json(raw) ==
    IF raw \in FlagBodies THEN FlagDoc(raw[2])
    ELSE CASE raw = <<1>> -> TestPayloadDoc
           [] raw = <<1, 32>> -> TestPayloadDoc     \* the same document, a space appended
           [] raw = <<2>> ->                        \* kind "environment", no access record
                PayloadDoc(JArr(<<>>), "environment", "Testing", "", "archived",
                           MemberDoc("Reese", "Applebaum"))
           [] raw = <<3>> ->                        \* unknown fields, empty strings
                JObj([accesses |-> JArr(<<JObj([action |-> JStr("createFlag"),
                                                resource |-> JStr("proj/*")])>>),
                      kind |-> JStr("flag"), name |-> JStr(""), description |-> JStr(""),
                      titleVerb |-> JStr("created"),
                      member |-> JObj([firstName |-> JStr(""), lastName |-> JStr("Byron"),
                                       email |-> JStr("ada@example.com")]),
                      date |-> JNum(1)])
           [] raw = <<4>> ->                        \* member is absent
                JObj([accesses |-> JArr(<<AccessDoc(1)>>), kind |-> JStr("flag"),
                      name |-> JStr("dark-mode"), description |-> JStr(""),
                      titleVerb |-> JStr("turned on")])
           [] raw = <<5>> ->                        \* accesses is not an array
                PayloadDoc(JStr("updateOn"), "flag", "dark-mode", "", "turned on",
                           MemberDoc("Ada", "Byron"))
           [] raw = <<6>> ->                        \* name is a number
                JObj([accesses |-> JArr(<<AccessDoc(1)>>), kind |-> JStr("flag"),
                      name |-> JNum(7), description |-> JStr(""),
                      titleVerb |-> JStr("turned on"), member |-> MemberDoc("Ada", "Byron")])
           [] raw = <<7>> ->                        \* snake_case instead of camelCase
                JObj([accesses |-> JArr(<<AccessDoc(1)>>), kind |-> JStr("flag"),
                      name |-> JStr("dark-mode"), description |-> JStr(""),
                      title_verb |-> JStr("turned on"),
                      member |-> JObj([first_name |-> JStr("Ada"),
                                       last_name |-> JStr("Byron")])])
           [] raw = <<8>> ->                        \* an access record without action
                PayloadDoc(JArr(<<AccessDoc(1), JObj([resource |-> JStr("proj/*")])>>),
                           "flag", "dark-mode", "", "turned on", MemberDoc("Ada", "Byron"))
           [] raw = <<9>> ->                        \* the structs written as JSON arrays
                JArr(<<JArr(<<JArr(<<JStr("updateOn")>>)>>), JStr("flag"), JStr("dark-mode"),
                       JStr("- Turned the flag on"), JStr("turned on"),
                       JArr(<<JStr("Ada"), JStr("Byron")>>)>>)
           [] raw = <<10>> -> JStr("flag")          \* JSON, but not an object
           [] raw = <<11>> ->                       \* a "project" change
                PayloadDoc(JArr(<<AccessDoc(2), AccessDoc(1)>>), "project", "Default",
                           "- Renamed", "renamed", MemberDoc("Reese", "Applebaum"))
           [] raw = <<12>> -> NotJson               \* not JSON
           [] OTHER -> NotJson                      \* the empty body

---------------------------------------------------------------------------
(* #[derive(Deserialize)] for Access, Member and Payload (main.rs:21-42)   *)

\* The values of a struct's fields, in declaration order: from an object
\* by (renamed) field name, unknown fields ignored; from an array by
\* position, the length being exactly the number of fields.
StructFields(doc, names) ==
    IF doc.t = "object"
    THEN IF \A i \in 1..Len(names) : names[i] \in DOMAIN doc.v
         THEN Ok([i \in 1..Len(names) |-> doc.v[names[i]]])
         ELSE Err("missing field")
    ELSE IF doc.t = "array"
    THEN IF Len(doc.v) = Len(names) THEN Ok(doc.v) ELSE Err("invalid length")
    ELSE Err("invalid type")

IsString(doc) == doc.t = "string"

DeAccess(doc) ==
    LET f == StructFields(doc, <<"action">>)
    IN  IF f.tag = "Err" THEN f
        ELSE IF ~IsString(f.v[1]) THEN Err("invalid type")
        ELSE Ok([action |-> f.v[1].v])

DeMember(doc) ==
    LET f == StructFields(doc, <<"firstName", "lastName">>)
    IN  IF f.tag = "Err" THEN f
        ELSE IF ~(IsString(f.v[1]) /\ IsString(f.v[2])) THEN Err("invalid type")
        ELSE Ok([first_name |-> f.v[1].v, last_name |-> f.v[2].v])

DeAccesses(doc) ==
    IF doc.t # "array" THEN Err("invalid type")
    ELSE IF \E i \in 1..Len(doc.v) : DeAccess(doc.v[i]).tag = "Err" THEN Err("invalid element")
    ELSE Ok([i \in 1..Len(doc.v) |-> DeAccess(doc.v[i]).v])

DePayload(doc) ==
    LET f == StructFields(doc, <<"accesses", "kind", "name", "description",
                                 "titleVerb", "member">>)
    IN  IF f.tag = "Err" THEN f
        ELSE IF DeAccesses(f.v[1]).tag = "Err" THEN DeAccesses(f.v[1])
        ELSE IF ~(\A i \in 2..5 : IsString(f.v[i])) THEN Err("invalid type")
        ELSE IF DeMember(f.v[6]).tag = "Err" THEN DeMember(f.v[6])
        ELSE Ok([accesses |-> DeAccesses(f.v[1]).v, kind |-> f.v[2].v, name |-> f.v[3].v,
                 description |-> f.v[4].v, title_verb |-> f.v[5].v,
                 member |-> DeMember(f.v[6]).v])

\* serde_json::from_slice::<Payload> / from_str::<Payload>
from_slice(raw) ==
    IF Json(raw).t = "invalid" THEN Err("syntax") ELSE DePayload(Json(raw))

---------------------------------------------------------------------------
(* request.payload::<Payload>() (main.rs:106): lambda_http's RequestExt    *)
(* picks the decoder by the Content-Type header.                           *)

ContentTypes ==
    {None, Some("application/json"), Some("application/x-www-form-urlencoded"),
     Some("application/json; charset=utf-8")}

\* serde_urlencoded yields a flat list of string pairs; Payload's accesses
\* (a sequence) and member (a struct) cannot be read from a string.
from_urlencoded(raw) == Err("WwwFormUrlEncoded")

\* A payload() that reads every body as JSON
payload_any_content_type(req) ==
    IF from_slice(req.body).tag = "Ok" THEN Ok(Some(from_slice(req.body).v))
    ELSE Err("Json")

request_payload(req) ==
    IF req.content_type = Some("application/x-www-form-urlencoded")
    THEN from_urlencoded(req.body)
    ELSE IF req.content_type = Some("application/json")
    THEN IF from_slice(req.body).tag = "Ok" THEN Ok(Some(from_slice(req.body).v))
         ELSE Err("Json")
    ELSE Ok(None)

---------------------------------------------------------------------------
(* event (main.rs:50-67) *)

\* format!: each "{}" of the template is replaced by the next argument
RECURSIVE format(_, _)
format(template, args) ==
    IF template = <<>> THEN ""
    ELSE IF Head(template) = "{}"
    THEN Head(args) \o format(Tail(template), Tail(args))
    ELSE Head(template) \o format(Tail(template), args)

Value(v) == [tag |-> "Value", v |-> v]
Panic(msg) == [tag |-> "Panic", msg |-> msg]

\* An event whose action tag names the last access record
event_last(p) ==
    IF p.accesses = <<>> THEN Panic("index out of bounds")
    ELSE Value([title |-> format(<<"{}", " ", "{}", " ", "{}", " ", "{}">>,
                                 <<p.member.first_name, p.member.last_name,
                                   p.title_verb, p.name>>),
                text |-> p.description,
                tags |-> <<format(<<"kind:", "{}">>, <<p.kind>>),
                           format(<<"name:", "{}">>, <<p.name>>),
                           format(<<"action:", "{}">>, <<p.accesses[Len(p.accesses)].action>>)>>,
                source_type_name |-> "launch-darkly"])

\* payload.accesses[0] panics on an empty Vec (index out of bounds)
event(p) ==
    IF p.accesses = <<>> THEN Panic("index out of bounds")
    ELSE Value([title |-> format(<<"{}", " ", "{}", " ", "{}", " ", "{}">>,
                                 <<p.member.first_name, p.member.last_name,
                                   p.title_verb, p.name>>),
                text |-> p.description,
                tags |-> <<format(<<"kind:", "{}">>, <<p.kind>>),
                           format(<<"name:", "{}">>, <<p.name>>),
                           format(<<"action:", "{}">>, <<p.accesses[1].action>>)>>,
                source_type_name |-> "launch-darkly"])

---------------------------------------------------------------------------
(* record (main.rs:70-88) *)

\* What Client::send can come to: a 2xx response, a response with another
\* status, or a transport error.  Only the last is an Err.
SendOutcomes == {"2xx", "non2xx", "network_error"}

send(outcome) == IF outcome = "network_error" THEN Err("network") ELSE Ok(outcome)

\* What a call of record did: the calls it made, the requests it sent,
\* the log records it wrote, and whether it panicked.
Effect(c, s, l, p) == [calls |-> c, sent |-> s, logs |-> l, panicked |-> p]

\* A record without the kind filter
record_unfiltered(p, dd_api_key, outcome) ==
    IF event(p).tag = "Panic"
    THEN Effect(<<"event">>, <<>>, <<>>, TRUE)
    ELSE Effect(<<"event", "send">>,
                <<[method |-> "POST",
                   url |-> format(<<"https://app.datadoghq.com/api/v1/events?api_key=", "{}">>,
                                  <<dd_api_key>>),
                   json |-> event(p).v,
                   outcome |-> outcome]>>,
                IF send(outcome).tag = "Err"
                THEN <<[level |-> "error", msg |-> "failed to record event"]>> ELSE <<>>,
                FALSE)

record(p, dd_api_key, outcome) ==
    IF p.kind # "flag"
    THEN Effect(<<>>, <<>>, <<>>, FALSE)
    ELSE IF event(p).tag = "Panic"
    THEN Effect(<<"event">>, <<>>, <<>>, TRUE)
    ELSE Effect(<<"event", "send">>,
                <<[method |-> "POST",
                   url |-> format(<<"https://app.datadoghq.com/api/v1/events?api_key=", "{}">>,
                                  <<dd_api_key>>),
                   json |-> event(p).v,
                   outcome |-> outcome]>>,
                IF send(outcome).tag = "Err"
                THEN <<[level |-> "error", msg |-> "failed to record event"]>> ELSE <<>>,
                FALSE)

---------------------------------------------------------------------------
(* The environment and envy::from_env::<Env> (main.rs:15-19, 94-97) *)

\* "secret" and "wrong", as bytes
Secrets == {<<115, 101, 99, 114, 101, 116>>, <<119, 114, 111, 110, 103>>}

ApiKeys == {"dd-key"}

Envs == [LD_SECRET : {None} \cup {Some(s) : s \in Secrets},
         DD_API_KEY : {None} \cup {Some(k) : k \in ApiKeys}]

\* A from_env that reads a missing variable as the empty string
from_env_default(e) ==
    Ok([ld_secret |-> IF e.LD_SECRET.tag = "None" THEN <<>> ELSE e.LD_SECRET.v,
        dd_api_key |-> IF e.DD_API_KEY.tag = "None" THEN "" ELSE e.DD_API_KEY.v])

from_env(e) ==
    IF e.LD_SECRET.tag = "None" THEN Err("missing value for field ld_secret")
    ELSE IF e.DD_API_KEY.tag = "None" THEN Err("missing value for field dd_api_key")
    ELSE Ok([ld_secret |-> e.LD_SECRET.v, dd_api_key |-> e.DD_API_KEY.v])

---------------------------------------------------------------------------
(* Requests *)

ToUpper(chars) ==
    [i \in 1..Len(chars) |->
        IF \E k \in 1..16 : HexLower[k] = chars[i]
        THEN HexUpper[CHOOSE k \in 1..16 : HexLower[k] = chars[i]]
        ELSE chars[i]]

\* The X-LD-Signature headers tried with a body: none, the signature under
\* each secret in either letter case, that signature cut short by a digit
\* or a byte or made longer by a byte, the empty value, and text that is
\* not hexadecimal.
Signatures(body) ==
    {None, Some(<<>>), Some(<<"n", "o", "t", "-", "h", "e", "x", "!">>)}
    \cup UNION {LET hex == HexEncode(Hmac(s, body))
                IN  {Some(hex), Some(ToUpper(hex)),
                     Some(SubSeq(hex, 1, Len(hex) - 1)),
                     Some(SubSeq(hex, 1, Len(hex) - 2)),
                     Some(hex \o <<"0", "0">>)} : s \in Secrets}

Requests ==
    UNION {[signature : Signatures(b), content_type : ContentTypes, body : {b}] : b \in Bodies}

NoRequest == [signature |-> None, content_type |-> None, body |-> <<>>]

---------------------------------------------------------------------------
(* handler (main.rs:90-116), one action per step *)

\* The "message" of the success response is the thumbs-up sign (U+1F44D)
SuccessMarker == ":thumbs-up:"

Message(m) == Ok([message |-> m])

NoTest == [name |-> "none"]

Init ==
    /\ env \in Envs
    /\ pc = "idle"
    /\ request = NoRequest
    /\ cfg = None
    /\ payload = None
    /\ response = None
    /\ calls = <<>>
    /\ sent = <<>>
    /\ logs = <<>>
    /\ test = NoTest

\* lambda!(handler) (main.rs:46): the runtime hands the next request to
\* handler ...
Invoke(req) ==
    /\ pc = "idle"
    /\ pc' = "received"
    /\ request' = req
    /\ UNCHANGED <<env, cfg, payload, response, calls, sent, logs, test>>

\* ... and, once handler has returned Ok or Err, waits for another one.
\* Nothing of an invocation is kept.  A panic unwinds out of handler: that
\* invocation has no return value.
Return ==
    /\ pc \in {"responded", "failed"}
    /\ pc' = "idle"
    /\ request' = NoRequest
    /\ cfg' = None
    /\ payload' = None
    /\ response' = None
    /\ calls' = <<>>
    /\ sent' = <<>>
    /\ logs' = <<>>
    /\ UNCHANGED <<env, test>>

\* main.rs:94-97: a missing variable is returned as Err(HandlerError)
LoadEnv ==
    /\ pc = "received"
    /\ calls' = Append(calls, "from_env")
    /\ IF from_env(env).tag = "Ok"
       THEN /\ cfg' = Some(from_env(env).v)
            /\ pc' = "authenticating"
            /\ response' = response
       ELSE /\ cfg' = cfg
            /\ pc' = "failed"
            /\ response' = Some(Err(from_env(env).e))
    /\ UNCHANGED <<env, request, payload, sent, logs, test>>

\* main.rs:99-104
Authenticate ==
    /\ pc = "authenticating"
    /\ calls' = Append(calls, "authenticated")
    /\ IF authenticated(request, cfg.v.ld_secret)
       THEN /\ pc' = "decoding"
            /\ UNCHANGED <<response, logs>>
       ELSE /\ pc' = "responded"
            /\ logs' = Append(logs, [level |-> "warn", msg |-> "request was not authenticated"])
            /\ response' = Some(Message("Request not authenticated"))
    /\ UNCHANGED <<env, request, cfg, payload, sent, test>>

\* main.rs:106 and 113-115: anything but Ok(Some(payload)) falls through
Decode ==
    /\ pc = "decoding"
    /\ calls' = Append(calls, "payload")
    /\ LET r == request_payload(request)
       IN  IF r.tag = "Ok" /\ r.v.tag = "Some"
           THEN /\ payload' = Some(r.v.v)
                /\ pc' = "recording"
                /\ response' = response
           ELSE /\ payload' = payload
                /\ pc' = "responded"
                /\ response' = Some(Message("Failed to process request"))
    /\ UNCHANGED <<env, request, cfg, sent, logs, test>>

\* main.rs:107-110
Record(outcome) ==
    /\ pc = "recording"
    /\ LET r == record(payload.v, cfg.v.dd_api_key, outcome)
       IN  /\ calls' = Append(calls, "record") \o r.calls
           /\ sent' = sent \o r.sent
           /\ logs' = logs \o r.logs
           /\ IF r.panicked
              THEN pc' = "panicked" /\ response' = response
              ELSE pc' = "responded" /\ response' = Some(Message(SuccessMarker))
    /\ UNCHANGED <<env, request, cfg, payload, test>>

Next ==
    \/ \E req \in Requests : Invoke(req)
    \/ LoadEnv
    \/ Authenticate
    \/ Decode
    \/ \E outcome \in SendOutcomes : Record(outcome)
    \/ Return

Spec == Init /\ [][Next]_vars

---------------------------------------------------------------------------
(* mod tests (main.rs:138-178), run on every body and secret of the model  *)
(* instead of tests/data/payload.json and "secret" alone                   *)

InitTests ==
    /\ env = [LD_SECRET |-> None, DD_API_KEY |-> None]
    /\ pc = "test"
    /\ request = NoRequest
    /\ cfg = None
    /\ payload = None
    /\ response = None
    /\ calls = <<>>
    /\ sent = <<>>
    /\ logs = <<>>
    /\ test = NoTest

\* main.rs:142-146
payload_parses(body) ==
    /\ test = NoTest
    /\ test' = [name |-> "payload_parses", body |-> body,
                passed |-> from_slice(body).tag = "Ok"]
    /\ UNCHANGED <<env, pc, request, cfg, payload, response, calls, sent, logs>>

\* main.rs:148-161: the document event returns, for a body that parses
creates_event(body) ==
    /\ test = NoTest
    /\ from_slice(body).tag = "Ok"
    /\ test' = [name |-> "creates_event", body |-> body,
                payload |-> from_slice(body).v,
                result |-> event(from_slice(body).v)]
    /\ UNCHANGED <<env, pc, request, cfg, payload, response, calls, sent, logs>>

\* main.rs:163-177, with the secret of the check not always that of the
\* signature
authenticates_requests(body, sign_secret, check_secret) ==
    /\ test = NoTest
    /\ LET signature == HexEncode(Hmac(sign_secret, body))
           req == [signature |-> Some(signature), content_type |-> None, body |-> body]
       IN  test' = [name |-> "authenticates_requests", body |-> body,
                    sign_secret |-> sign_secret, check_secret |-> check_secret,
                    request |-> req,
                    result |-> authenticated(req, check_secret)]
    /\ UNCHANGED <<env, pc, request, cfg, payload, response, calls, sent, logs>>

NextTests ==
    \/ \E body \in Bodies : payload_parses(body)
    \/ \E body \in Bodies : creates_event(body)
    \/ \E body \in Bodies, s1 \in Secrets \cup {<<>>}, s2 \in Secrets \cup {<<>>} :
            authenticates_requests(body, s1, s2)

SpecTests == InitTests /\ [][NextTests]_vars

---------------------------------------------------------------------------
(* Properties *)

Configured == cfg.tag = "Some"

Responded(m) == pc = "responded" /\ response = Some(Message(m))

HexAlphabet ==
    {"0", "1", "2", "3", "4", "5", "6", "7", "8", "9", "a", "b", "c", "d", "e", "f",
     "A", "B", "C", "D", "E", "F"}

ValidHex(chars) ==
    /\ Len(chars) % 2 = 0
    /\ \A i \in 1..Len(chars) : chars[i] \in HexAlphabet

\* The header of req is missing, is not hexadecimal, or does not spell the
\* digest of req's body under secret (a value of another length never does)
BadSignature(req, secret) ==
    \/ req.signature = None
    \/ ~ValidHex(req.signature.v)
    \/ /\ req.signature.v # HexEncode(Hmac(secret, req.body))
       /\ req.signature.v # ToUpper(HexEncode(Hmac(secret, req.body)))

\* C1: with the configuration present, a request whose X-LD-Signature header
\* is absent, is not valid hexadecimal, has another length than the digest
\* or differs from HMAC(secret, body) gets the answer "Request not
\* authenticated"; its payload is never decoded and nothing is published.
C1_UnauthenticatedRejected ==
    (Configured /\ BadSignature(request, cfg.v.ld_secret)) =>
        /\ pc \in {"authenticating", "responded"}
        /\ pc = "responded" => response = Some(Message("Request not authenticated"))
        /\ \A i \in 1..Len(calls) : calls[i] \notin {"payload", "record", "event", "send"}
        /\ payload = None
        /\ sent = <<>>

\* A request signed under another secret than the configured one, carrying
\* a body that would decode, has been answered "Request not authenticated"
C1_Witness ==
    /\ Responded("Request not authenticated")
    /\ request.signature.tag = "Some"
    /\ \E s \in Secrets :
          /\ s # cfg.v.ld_secret
          /\ request.signature.v = HexEncode(Hmac(s, request.body))
    /\ Len(request.signature.v) = 2 * DigestLen
    /\ request.content_type = Some("application/json")
    /\ from_slice(request.body).tag = "Ok"

\* C2: for every body B and secret S, authenticated accepts a request with
\* body B whose X-LD-Signature is the hex encoding of HMAC(S, B), checked
\* against S.
C2_OwnSignatureVerifies ==
    (test.name = "authenticates_requests" /\ test.sign_secret = test.check_secret) =>
        test.result = TRUE

\* authenticated has accepted the unit test's body signed under "secret"
C2_Witness ==
    /\ test.name = "authenticates_requests"
    /\ test.body = <<1>>
    /\ test.sign_secret = <<115, 101, 99, 114, 101, 116>>
    /\ test.check_secret = test.sign_secret
    /\ Len(test.request.signature.v) = 2 * DigestLen
    /\ test.result = TRUE

\* C3: for a payload with at least one access record, event returns the
\* document with the title "<firstName> <lastName> <titleVerb> <name>", the
\* description as text, the three tags kind:, name: and action: (of the
\* first access record) in that order, and source_type_name "launch-darkly".
C3_EventDocument ==
    (test.name = "creates_event" /\ test.payload.accesses # <<>>) =>
        /\ test.result =
              Value([title |-> test.payload.member.first_name \o " "
                               \o test.payload.member.last_name \o " "
                               \o test.payload.title_verb \o " " \o test.payload.name,
                     text |-> test.payload.description,
                     tags |-> <<"kind:" \o test.payload.kind,
                                "name:" \o test.payload.name,
                                "action:" \o Head(test.payload.accesses).action>>,
                     source_type_name |-> "launch-darkly"])
        /\ test.body = <<1>> =>
              test.result =
                 Value([title |-> "Reese Applebaum changed the name of Testing",
                        text |-> "- Changed the name from ~~Test~~ to *Testing*",
                        tags |-> <<"kind:environment", "name:Testing", "action:updateName">>,
                        source_type_name |-> "launch-darkly"])

\* event has built the document of a payload with several access records
\* whose last action is not its first
C3_Witness ==
    /\ test.name = "creates_event"
    /\ Len(test.payload.accesses) > 1
    /\ test.payload.accesses[Len(test.payload.accesses)].action
          # test.payload.accesses[1].action
    /\ test.result.tag = "Value"
    /\ test.result.v.tags[3] = "action:updateOn"

\* C4: an authenticated request whose payload has a kind other than "flag"
\* publishes nothing and is answered with the success message.
C4_OtherKindsNotPublished ==
    (payload.tag = "Some" /\ payload.v.kind # "flag") =>
        /\ sent = <<>>
        /\ \A i \in 1..Len(calls) : calls[i] \notin {"event", "send"}
        /\ pc \in {"recording", "responded"}
        /\ pc = "responded" => response = Some(Message(SuccessMarker))

\* record has returned for an "environment" payload and the answer is out
C4_Witness ==
    /\ Responded(SuccessMarker)
    /\ payload.tag = "Some"
    /\ payload.v.kind = "environment"
    /\ payload.v.accesses # <<>>
    /\ calls = <<"from_env", "authenticated", "payload", "record">>

\* C5: an authenticated request whose payload is a "flag" change with an
\* empty accesses list does not crash the handler: nothing is published and
\* the answer is "Failed to process request".
C5_EmptyAccessesFailCleanly ==
    (payload.tag = "Some" /\ payload.v.kind = "flag" /\ payload.v.accesses = <<>>) =>
        /\ pc # "panicked"
        /\ sent = <<>>
        /\ pc = "responded" => response = Some(Message("Failed to process request"))

\* C6: for an authenticated "flag" payload with an access record the answer
\* is the success message whatever came of the publish call, and a publish
\* that failed (a transport error or a response that is not 2xx) left an
\* error record in the log.
C6_PublishFailureLoggedAndSwallowed ==
    (payload.tag = "Some" /\ payload.v.kind = "flag" /\ payload.v.accesses # <<>>
        /\ pc \notin {"recording"}) =>
        /\ Responded(SuccessMarker)
        /\ \A i \in 1..Len(sent) :
              sent[i].outcome # "2xx" =>
                 \E j \in 1..Len(logs) : logs[j].level = "error"

\* C7: an invocation (here: one that found its configuration) never ends in
\* a crash, and ends with exactly one response, whose message is one of the
\* three fixed ones.
C7_AlwaysResponds ==
    Configured =>
        /\ pc # "panicked"
        /\ pc \in {"responded", "failed"} =>
              /\ pc = "responded"
              /\ response \in {Some(Message(m)) :
                                 m \in {"Request not authenticated",
                                        "Failed to process request", SuccessMarker}}

\* C8: when LD_SECRET or DD_API_KEY is missing the handler returns a
\* configuration error before it verifies any signature; no payload is
\* decoded and nothing is published.
C8_MissingConfigurationRefused ==
    (env.LD_SECRET = None \/ env.DD_API_KEY = None) =>
        /\ pc \in {"idle", "received", "failed"}
        /\ calls \in {<<>>, <<"from_env">>}
        /\ pc = "failed" =>
              /\ response.tag = "Some"
              /\ response.v.tag = "Err"
        /\ cfg = None
        /\ payload = None
        /\ sent = <<>>

\* handler has returned an error for a well-signed request because only
\* DD_API_KEY is missing
C8_Witness ==
    /\ pc = "failed"
    /\ env.LD_SECRET # None
    /\ env.DD_API_KEY = None
    /\ response = Some(Err("missing value for field dd_api_key"))
    /\ request.signature = Some(HexEncode(Hmac(env.LD_SECRET.v, request.body)))
    /\ request.content_type = Some("application/json")
    /\ from_slice(request.body).tag = "Ok"

Authenticated == \E i \in 1..Len(calls) : calls[i] = "payload"

\* C10 as stated: an authenticated request is answered "Failed to process
\* request" exactly when its raw body does not decode as a Payload,
\* whatever its other headers are.
C10_FailedIffBodyUndecodable ==
    (pc = "responded" /\ Authenticated) =>
        (response = Some(Message("Failed to process request"))
            <=> from_slice(request.body).tag = "Err")

\* C10 as amended: an authenticated request is answered "Failed to process
\* request" exactly when its Content-Type is not application/json or its
\* body does not decode as a Payload, and then nothing is published; with
\* Content-Type application/json a body that decodes goes on to record.
C10_FailedIffNoJsonPayload ==
    (pc \in {"recording", "responded", "panicked"} /\ Authenticated) =>
        IF request.content_type = Some("application/json")
              /\ from_slice(request.body).tag = "Ok"
        THEN /\ payload = Some(from_slice(request.body).v)
             /\ response # Some(Message("Failed to process request"))
             /\ pc # "recording" => \E i \in 1..Len(calls) : calls[i] = "record"
        ELSE /\ Responded("Failed to process request")
             /\ payload = None
             /\ sent = <<>>
             /\ \A i \in 1..Len(calls) : calls[i] \notin {"record", "event", "send"}

\* A well-signed request whose body decodes but which has no Content-Type
\* header has been answered "Failed to process request"
C10_Witness ==
    /\ Responded("Failed to process request")
    /\ request.content_type = None
    /\ from_slice(request.body).tag = "Ok"
    /\ from_slice(request.body).v.kind = "flag"
    /\ calls = <<"from_env", "authenticated", "payload">>

===========================================================================
